---- MODULE Spec2Model ----
(***************************************************************************)
(* A model of piker/ui/_position.py: the PositionTracker of one chart, its *)
(* Position snapshot, its LevelMarker, its optional level-line and its two *)
(* labels, driven by position messages (update), by the tracker's show /   *)
(* hide / hide_info calls and by the chart's paint cycles and range-change *)
(* notifications.                                                          *)
(*                                                                         *)
(* The tracker is one record t, and every method of the source is an       *)
(* operator from the tracker before the call to the tracker after it, so   *)
(* that a method calling another (update -> update_line -> position_line,  *)
(* update -> show / hide) is the composition the code executes.            *)
(*                                                                         *)
(* Scene ordinates (the y of a marker position) are kept in thirds of a    *)
(* scene unit, so that h/3 and 4/3*h are exact: a position is              *)
(* [x |-> x, y3 |-> 3*y].  Text layout and the anchoring of the labels are *)
(* done by the Label collaborator and are not part of the state.           *)
(***************************************************************************)
EXTENDS Integers, FiniteSets, Sequences, TLC

VARIABLES
    info,         \* PositionTracker.info: the Position snapshot
    line,         \* PositionTracker.line: None or the LevelLine
    marker,       \* PositionTracker._level_marker: the LevelMarker
    pp_label,     \* PositionTracker.pp_label
    size_label,   \* PositionTracker.size_label
    nlines,       \* number of LevelLine objects built so far (object identity)
    chart_lines,  \* ids of the LevelLine objects now in the chart
    connections,  \* slots connected to the view box's sigRangeChanged
    arrows,       \* the markers level_marker built and returned to its caller
    err,          \* the exception the last call ended with, or "none"
    view,         \* the view box: visible y range and height
    msg,          \* the message of the most recent update call, or NoMsg
    last          \* the most recent call or event: its name, its size
                  \* argument (0 when it has none), the number of
                  \* position_in_view runs it made, and whether it is an
                  \* update repeating the message of the update just before

vars == <<info, line, marker, pp_label, size_label, nlines, chart_lines,
          connections, arrows, err, view, msg, last>>

-----------------------------------------------------------------------------
(* Bounds of the model. *)

MaxSize == 1
MaxPrice == 3
MaxLines == 2
MaxDrift == 100

Sizes == (0 - MaxSize)..MaxSize
Prices == 0..MaxPrice
Msgs == [avg_price : Prices, size : Sizes]

\* Python's None, where the other values are records
None == [none |-> TRUE]
NoMsg == [none |-> TRUE]
Unbound == "unbound"

\* scene units per data unit of the view box: view.height() over the span
\* of the visible y range
PxPerUnit == 2

\* LevelMarker.h, the height of the glyph's bounding rect
MarkerH == 2

\* the view box states: the visible y range [ymn, ymx] and the height, a
\* whole number of scene units per data unit, so that mapFromView is exact
ViewStates ==
    { [ymn |-> w[1], ymx |-> w[2], height |-> (w[2] - w[1]) * PxPerUnit] :
        w \in { w \in (1..MaxPrice) \X (1..MaxPrice) : w[1] < w[2] } }

\* marker_right_points(chart)[1]: the x of the marker's right-edge anchor
SceneX == 7

-----------------------------------------------------------------------------
(* The tracker as one value. *)

Tracker ==
    [info |-> info, line |-> line, marker |-> marker, pp_label |-> pp_label,
     size_label |-> size_label, nlines |-> nlines, chart_lines |-> chart_lines,
     connections |-> connections, arrows |-> arrows, err |-> "none"]

Becomes(t) ==
    /\ info' = t.info
    /\ line' = t.line
    /\ marker' = t.marker
    /\ pp_label' = t.pp_label
    /\ size_label' = t.size_label
    /\ nlines' = t.nlines
    /\ chart_lines' = t.chart_lines
    /\ connections' = t.connections
    /\ arrows' = t.arrows
    /\ err' = t.err

-----------------------------------------------------------------------------
(* LevelMarker *)

\* the dpi-aware font's pixel size, _font.font.pixelSize()
FontSize == 8

\* floor(1.375 * font_size)
ArrowSize == (1375 * FontSize) \div 1000

\* LevelMarker.__init__: a new glyph; a QGraphicsItem starts visible, at the
\* origin and in no scene
LevelMarker(id, style, keep_in_view) ==
    [id |-> id, style |-> style, level |-> 0, keep_in_view |-> keep_in_view,
     visible |-> TRUE, in_scene |-> FALSE, pos |-> [x |-> 0, y3 |-> 0],
     direction |-> Unbound, label |-> FALSE]

\* the style setter: the path is rebuilt only when the style changes
SetStyle(m, value) ==
    IF m.style # value THEN [m EXCEPT !.style = value] ELSE m

\* chart.view.mapFromView(QPointF(0, lvl)).y(): the scene y of a data level,
\* growing downward from the top of the view (an exact division)
MapFromView(v, lvl) == ((v.ymx - lvl) * v.height) \div (v.ymx - v.ymn)

\* PositionTracker.level, the marker's get_level
level(t) == IF t.line # None THEN t.line.level ELSE 0

\* position_in_view pinning to the top edge already at level = ymx
position_in_view_ge(t, v) ==
    LET lvl == IF t.line # None THEN t.line.level ELSE 0
        y3 == IF lvl >= v.ymx THEN MarkerH
              ELSE IF lvl < v.ymn THEN 3 * v.height - 4 * MarkerH
              ELSE 3 * MapFromView(v, lvl)
    IN [t EXCEPT !.marker.pos = [x |-> SceneX, y3 |-> y3]]

\* position_in_view reading the marker's own level attribute, the copy the
\* last update stored, instead of calling get_level
position_in_view_cached(t, v) ==
    LET lvl == t.marker.level
        y3 == IF lvl > v.ymx THEN MarkerH
              ELSE IF lvl < v.ymn THEN 3 * v.height - 4 * MarkerH
              ELSE 3 * MapFromView(v, lvl)
    IN [t EXCEPT !.marker.pos = [x |-> SceneX, y3 |-> y3]]

\* position_in_view showing the marker it has placed
position_in_view_shows(t, v) ==
    LET lvl == IF t.line # None THEN t.line.level ELSE 0
        y3 == IF lvl > v.ymx THEN MarkerH
              ELSE IF lvl < v.ymn THEN 3 * v.height - 4 * MarkerH
              ELSE 3 * MapFromView(v, lvl)
    IN [t EXCEPT !.marker.pos = [x |-> SceneX, y3 |-> y3],
                 !.marker.visible = TRUE]

\* LevelMarker.position_in_view of the tracker's marker, in view box v
position_in_view(t, v) ==
    LET lvl == level(t)
        y3 == IF lvl > v.ymx THEN MarkerH
              ELSE IF lvl < v.ymn THEN 3 * v.height - 4 * MarkerH
              ELSE 3 * MapFromView(v, lvl)
    IN [t EXCEPT !.marker.pos = [x |-> SceneX, y3 |-> y3]]

\* LevelMarker.paint of the tracker's marker
paint(t, v) ==
    IF t.marker.keep_in_view
    THEN position_in_view(t, v)
    ELSE [t EXCEPT !.marker.pos =
            [x |-> SceneX, y3 |-> t.marker.pos.y3 + 3 * ArrowSize * level(t)]]

-----------------------------------------------------------------------------
(* PositionTracker *)

\* the glyph style of a signed size; neither branch binds it at size 0
StyleOf(size) ==
    IF size > 0 THEN "|<" ELSE IF size < 0 THEN ">|" ELSE Unbound

DirectionOf(size) ==
    IF size > 0 THEN "up" ELSE IF size < 0 THEN "down" ELSE Unbound

\* PositionTracker.level_marker as __init__ calls it, with no prior marker:
\* the arrow it returns
level_marker(id, size) ==
    [LevelMarker(id, StyleOf(size), TRUE) EXCEPT
        !.direction = DirectionOf(size), !.in_scene = TRUE, !.visible = TRUE]

\* PositionTracker.position_line
position_line(t, size, lvl) ==
    LET id == t.nlines + 1
        t1 == [t EXCEPT !.line = [id |-> id, level |-> lvl, visible |-> TRUE],
                        !.nlines = id,
                        !.chart_lines = @ \cup {id}]
    IN IF StyleOf(size) = Unbound
       THEN [t1 EXCEPT !.err = "UnboundLocalError"]
       ELSE [t1 EXCEPT !.marker = [SetStyle(@, StyleOf(size)) EXCEPT
                                      !.level = lvl, !.visible = TRUE],
                       !.connections = Append(@, t.marker.id),
                       !.line.level = lvl]

\* update_line leaving the line in place when the size returns to zero
update_line_keeps(t, price, size) ==
    IF t.line = None /\ size # 0
    THEN LET t1 == position_line(t, size, price)
         IN IF t1.err # "none" THEN t1 ELSE [t1 EXCEPT !.line.visible = TRUE]
    ELSE IF t.line # None /\ size # 0
    THEN [t EXCEPT !.line.level = price,
                   !.marker.level = price,
                   !.line.visible = TRUE]
    ELSE t

\* update_line moving the marker but not the existing line
update_line_stale(t, price, size) ==
    IF t.line = None /\ size # 0
    THEN LET t1 == position_line(t, size, price)
         IN IF t1.err # "none" THEN t1 ELSE [t1 EXCEPT !.line.visible = TRUE]
    ELSE IF t.line # None
    THEN IF size # 0
         THEN [t EXCEPT !.marker.level = price,
                        !.line.visible = TRUE]
         ELSE [t EXCEPT !.line = None,
                        !.chart_lines = @ \ {t.line.id}]
    ELSE t

\* update_line building a new line on every non-zero size
update_line_recreate(t, price, size) ==
    IF size # 0
    THEN LET t1 == position_line(t, size, price)
         IN IF t1.err # "none" THEN t1 ELSE [t1 EXCEPT !.line.visible = TRUE]
    ELSE IF t.line # None
    THEN [t EXCEPT !.line = None,
                   !.chart_lines = @ \ {t.line.id}]
    ELSE t

\* update_line building a line whenever there is none, at size 0 too
update_line_always_builds(t, price, size) ==
    IF t.line = None
    THEN LET t1 == position_line(t, size, price)
         IN IF t1.err # "none" THEN t1 ELSE [t1 EXCEPT !.line.visible = TRUE]
    ELSE IF size # 0
    THEN [t EXCEPT !.line.level = price,
                   !.marker.level = price,
                   !.line.visible = TRUE]
    ELSE [t EXCEPT !.line = None,
                   !.chart_lines = @ \ {t.line.id}]

\* PositionTracker.update_line
update_line(t, price, size) ==
    IF t.line = None /\ size # 0
    THEN LET t1 == position_line(t, size, price)
         IN IF t1.err # "none" THEN t1 ELSE [t1 EXCEPT !.line.visible = TRUE]
    ELSE IF t.line # None
    THEN IF size # 0
         THEN [t EXCEPT !.line.level = price,
                        !.marker.level = price,
                        !.line.visible = TRUE]
         ELSE [t EXCEPT !.line = None,
                        !.chart_lines = @ \ {t.line.id}]
    ELSE t

\* show without the test of the size
show_unguarded(t) ==
    IF t.line = None
    THEN [t EXCEPT !.err = "AttributeError"]
    ELSE [t EXCEPT !.line.visible = TRUE,
                   !.marker.visible = TRUE,
                   !.pp_label.visible = TRUE,
                   !.size_label.visible = TRUE]

\* show leaving the marker as it is
show_no_marker(t) ==
    IF t.info.size # 0
    THEN IF t.line = None
         THEN [t EXCEPT !.err = "AttributeError"]
         ELSE [t EXCEPT !.line.visible = TRUE,
                        !.pp_label.visible = TRUE,
                        !.size_label.visible = TRUE]
    ELSE t

\* PositionTracker.show
show(t) ==
    IF t.info.size # 0
    THEN IF t.line = None
         THEN [t EXCEPT !.err = "AttributeError"]
         ELSE [t EXCEPT !.line.visible = TRUE,
                        !.marker.visible = TRUE,
                        !.pp_label.visible = TRUE,
                        !.size_label.visible = TRUE]
    ELSE t

\* hide leaving the line as it is
hide_no_line(t) ==
    [t EXCEPT !.pp_label.visible = FALSE,
              !.marker.visible = FALSE,
              !.size_label.visible = FALSE]

\* PositionTracker.hide
hide(t) ==
    LET t1 == [t EXCEPT !.pp_label.visible = FALSE,
                        !.marker.visible = FALSE,
                        !.size_label.visible = FALSE]
    IN IF t1.line # None THEN [t1 EXCEPT !.line.visible = FALSE] ELSE t1

\* PositionTracker.hide_info
hide_info(t) == [t EXCEPT !.size_label.visible = FALSE]

\* update writing the size label only for an open position
update_label_nonzero(t, m) ==
    LET avg_price == m.avg_price
        size == m.size
        t1 == [t EXCEPT !.info.avg_price = avg_price, !.info.size = size]
        t2 == update_line(t1, avg_price, size)
    IN IF t2.err # "none" THEN t2
       ELSE IF size = 0 THEN hide(t2)
       ELSE show([t2 EXCEPT !.size_label.entry_size = size,
                            !.size_label.rendered = size,
                            !.marker.level = avg_price])

\* update building a new Position from the message instead of writing the
\* two fields of the one it has
update_realloc(t, m) ==
    LET avg_price == m.avg_price
        size == m.size
        t1 == [t EXCEPT !.info = [id |-> @.id + 1, symbol |-> @.symbol,
                                  size |-> size, avg_price |-> avg_price,
                                  fills |-> <<>>]]
        t2 == update_line(t1, avg_price, size)
        t3 == [t2 EXCEPT !.size_label.entry_size = size,
                         !.size_label.rendered = size]
    IN IF t2.err # "none" THEN t2
       ELSE IF size = 0 THEN hide(t3)
       ELSE show([t3 EXCEPT !.marker.level = avg_price])

\* PositionTracker.update
update(t, m) ==
    LET avg_price == m.avg_price
        size == m.size
        t1 == [t EXCEPT !.info.avg_price = avg_price, !.info.size = size]
        t2 == update_line(t1, avg_price, size)
        t3 == [t2 EXCEPT !.size_label.entry_size = size,
                         !.size_label.rendered = size]
    IN IF t2.err # "none" THEN t2
       ELSE IF size = 0 THEN hide(t3)
       ELSE show([t3 EXCEPT !.marker.level = avg_price])

-----------------------------------------------------------------------------
(* The state after PositionTracker.__init__, on a chart of symbol "X". *)

Init ==
    /\ info = [id |-> 1, symbol |-> "X", size |-> 0, avg_price |-> 0,
               fills |-> <<>>]
    /\ line = None
    /\ marker = [level_marker(0, 1) EXCEPT !.label = TRUE]
    /\ pp_label = [visible |-> TRUE]
    /\ size_label = [visible |-> FALSE, entry_size |-> 0, rendered |-> 0]
    /\ nlines = 0
    /\ chart_lines = {}
    /\ connections = <<>>
    /\ arrows = <<>>
    /\ err = "none"
    /\ view \in ViewStates
    /\ msg = NoMsg
    /\ last = [op |-> "init", runs |-> 0, again |-> FALSE, arg |-> 0]

-----------------------------------------------------------------------------
(* The calls and events. *)

\* a position message arrives: PositionTracker.update(msg)
Update ==
    \E m \in Msgs :
        /\ (line = None /\ m.size # 0) => nlines < MaxLines
        /\ Becomes(update(Tracker, m))
        /\ msg' = m
        /\ last' = [op |-> "update", runs |-> 0,
                    again |-> (last.op = "update" /\ msg = m),
                    arg |-> m.size]
        /\ UNCHANGED view

Show ==
    /\ Becomes(show(Tracker))
    /\ last' = [op |-> "show", runs |-> 0, again |-> FALSE, arg |-> 0]
    /\ UNCHANGED <<view, msg>>

Hide ==
    /\ Becomes(hide(Tracker))
    /\ last' = [op |-> "hide", runs |-> 0, again |-> FALSE, arg |-> 0]
    /\ UNCHANGED <<view, msg>>

HideInfo ==
    /\ Becomes(hide_info(Tracker))
    /\ last' = [op |-> "hide_info", runs |-> 0, again |-> FALSE, arg |-> 0]
    /\ UNCHANGED <<view, msg>>

\* a paint cycle of the scene paints the marker when it is in the scene and
\* visible (a marker that is not kept in view moves on by every paint: the
\* model stops painting it beyond MaxDrift)
Paint ==
    /\ marker.in_scene
    /\ marker.visible
    /\ marker.keep_in_view \/ paint(Tracker, view).marker.pos.y3 <= MaxDrift
    /\ Becomes(paint(Tracker, view))
    /\ last' = [op |-> "paint", runs |-> 1, again |-> FALSE, arg |-> 0]
    /\ UNCHANGED <<view, msg>>

\* the slots connected to sigRangeChanged, run in connection order: each is
\* the position_in_view of the marker connected by position_line
RECURSIVE RunSlots(_, _, _)
RunSlots(t, v, slots) ==
    IF slots = <<>> THEN t
    ELSE RunSlots(IF Head(slots) = t.marker.id THEN position_in_view(t, v) ELSE t,
                  v, Tail(slots))

\* the visible range changes (pan, zoom) and sigRangeChanged is emitted
RangeChanged ==
    \E v \in ViewStates \ {view} :
        /\ view' = v
        /\ Becomes(RunSlots(Tracker, v, connections))
        /\ last' = [op |-> "range_changed", runs |-> Len(connections), again |-> FALSE, arg |-> 0]
        /\ UNCHANGED msg

Next == Update \/ Show \/ Hide \/ HideInfo \/ Paint \/ RangeChanged

Spec == Init /\ [][Next]_vars

-----------------------------------------------------------------------------
(* The tracker's calls with update_line called from outside as well: it is
   a public method, and a caller may move, build or delete the line without
   a position message.  The chart's events are left to Spec. *)

UpdateLine ==
    \E price \in Prices, size \in Sizes :
        /\ (line = None /\ size # 0) => nlines < MaxLines
        /\ Becomes(update_line(Tracker, price, size))
        /\ last' = [op |-> "update_line", runs |-> 0, again |-> FALSE,
                    arg |-> size]
        /\ UNCHANGED <<view, msg>>

NextLine == Update \/ UpdateLine \/ Show \/ Hide \/ HideInfo

SpecLine == Init /\ [][NextLine]_vars

-----------------------------------------------------------------------------
(* The tracker with level_marker called on it after construction. *)

\* LevelMarker.delete: scene() is None for an item that is in no scene
delete(m) ==
    IF m.in_scene
    THEN [err |-> "none", m |-> [m EXCEPT !.in_scene = FALSE]]
    ELSE [err |-> "AttributeError", m |-> m]

\* PositionTracker.level_marker on a constructed tracker: the whole method.
\* It deletes the tracker's marker, builds an arrow and returns it; it
\* assigns nothing to self._level_marker.
level_marker_on(t, size) ==
    LET d == delete(t.marker)
        t1 == [t EXCEPT !.marker = d.m, !.err = d.err]
    IN IF t1.err # "none" THEN t1
       ELSE IF StyleOf(size) = Unbound
       THEN [t1 EXCEPT !.err = "UnboundLocalError"]
       ELSE [t1 EXCEPT !.arrows = Append(@, level_marker(Len(@) + 1, size))]

LevelMarkerCall ==
    \E size \in Sizes :
        /\ Becomes(level_marker_on(Tracker, size))
        /\ last' = [op |-> "level_marker", runs |-> 0, again |-> FALSE,
                    arg |-> size]
        /\ UNCHANGED <<view, msg>>

\* a paint cycle paints an arrow level_marker built: its get_level is the
\* tracker's level and it is kept in view
PaintArrow ==
    \E i \in 1..Len(arrows) :
        /\ arrows[i].in_scene
        /\ arrows[i].visible
        /\ arrows' = [arrows EXCEPT ![i] =
                        paint([Tracker EXCEPT !.marker = arrows[i]], view).marker]
        /\ last' = [op |-> "paint_arrow", runs |-> 1, again |-> FALSE,
                    arg |-> 0]
        /\ UNCHANGED <<info, line, marker, pp_label, size_label, nlines,
                       chart_lines, connections, err, view, msg>>

NextMarker ==
    \/ Update \/ Show \/ Hide \/ Paint \/ RangeChanged
    \/ LevelMarkerCall \/ PaintArrow

SpecMarker == Init /\ [][NextMarker]_vars

-----------------------------------------------------------------------------
(* The tracker around a marker built with either value of keep_in_view, the
   parameter of LevelMarker.__init__. *)

InitKeep ==
    /\ info = [id |-> 1, symbol |-> "X", size |-> 0, avg_price |-> 0,
               fills |-> <<>>]
    /\ line = None
    /\ \E keep_in_view \in BOOLEAN :
          marker = [[LevelMarker(0, StyleOf(1), keep_in_view) EXCEPT
                        !.direction = DirectionOf(1), !.in_scene = TRUE,
                        !.visible = TRUE]
                    EXCEPT !.label = TRUE]
    /\ pp_label = [visible |-> TRUE]
    /\ size_label = [visible |-> FALSE, entry_size |-> 0, rendered |-> 0]
    /\ nlines = 0
    /\ chart_lines = {}
    /\ connections = <<>>
    /\ arrows = <<>>
    /\ err = "none"
    /\ view \in ViewStates
    /\ msg = NoMsg
    /\ last = [op |-> "init", runs |-> 0, again |-> FALSE, arg |-> 0]

SpecKeep == InitKeep /\ [][Next]_vars

-----------------------------------------------------------------------------
(* The properties. *)

\* every variable of the tracker itself
tracker_vars == <<info, line, marker, pp_label, size_label, nlines,
                  chart_lines, connections, arrows, err>>

\* C1: after each update call the level-line exists if and only if the size
\* of the message of that call is non-zero.
C1_LineIffSize ==
    last.op = "update" => ((line # None) <=> (msg.size # 0))

\* a position was opened and flattened again: the line was built and is gone
C1_Witness ==
    last.op = "update" /\ msg.size = 0 /\ line = None /\ nlines > 0

\* C2: after each update call with size > 0 the marker's style is '|<' and
\* after each update call with size < 0 it is '>|', also when the sign of
\* the size flips without passing through zero.
C2_StyleIsSign ==
    last.op = "update" =>
        /\ msg.size > 0 => marker.style = "|<"
        /\ msg.size < 0 => marker.style = ">|"

\* C3: in every state from the end of construction on, a size of zero
\* implies that neither the marker nor the level-line is visible.
C3_ZeroIsHidden ==
    info.size = 0 =>
        /\ ~marker.visible
        /\ line # None => ~line.visible

\* C4: whenever a level-line exists, the line's level and the marker's level
\* both equal the avg_price of the most recent message.
C4_LevelsArePrice ==
    line # None =>
        /\ msg # NoMsg
        /\ line.level = msg.avg_price
        /\ marker.level = msg.avg_price

\* after an update the first line and the marker are at the highest price
C4_Witness ==
    /\ last.op = "update"
    /\ line # None
    /\ line.id = 1
    /\ line.level = MaxPrice
    /\ marker.level = MaxPrice

\* C5: an update taking the size from 0 to non-zero builds exactly one line;
\* one taking it from non-zero to 0 deletes the line and clears the
\* reference; one from non-zero to non-zero keeps the same line object,
\* builds and deletes none, and changes only the line's level (it shows the
\* line, which between consecutive updates is shown already).
C5_Transitions ==
    [][ last'.op = "update" =>
          /\ (info.size = 0 /\ info'.size # 0) =>
                /\ line = None
                /\ line' # None
                /\ line'.id \notin chart_lines
                /\ nlines' = nlines + 1
                /\ chart_lines' = chart_lines \cup {line'.id}
          /\ (info.size # 0 /\ info'.size = 0) =>
                /\ line # None
                /\ line' = None
                /\ nlines' = nlines
                /\ chart_lines' = chart_lines \ {line.id}
          /\ (info.size # 0 /\ info'.size # 0) =>
                /\ line # None
                /\ line' = [line EXCEPT !.level = msg'.avg_price,
                                        !.visible = TRUE]
                /\ last.op = "update" => line'.visible = line.visible
                /\ nlines' = nlines
                /\ chart_lines' = chart_lines
      ]_vars

\* a position was opened, flattened and opened again: a second line was
\* built, and it is the only one in the chart
C5_Witness ==
    /\ last.op = "update"
    /\ nlines = 2
    /\ line # None
    /\ line.id = 2
    /\ chart_lines = {2}
    /\ last.again = FALSE
    /\ msg.avg_price = 2

\* C6: an update repeating the message of the update just before it leaves
\* the tracker as that update left it: the same line or none, the same
\* levels, style, label field and visibilities, and no further line.
C6_Idempotent ==
    [][ (last'.op = "update" /\ last'.again) => UNCHANGED tracker_vars ]_vars

\* an update with a non-zero size was repeated
C6_Witness ==
    last.op = "update" /\ last.again /\ msg.size # 0 /\ line # None

\* C7: after position_in_view has run, the marker is at x = scene_x and at
\* y = h/3 for a level above ymx, y = view.height - 4/3*h for a level below
\* ymn, and the mapped y of the level otherwise, the levels ymn and ymx
\* included.
C7_Pinning ==
    ((last.op = "paint" /\ marker.keep_in_view)
        \/ (last.op = "range_changed" /\ last.runs > 0)) =>
        LET L == IF line # None THEN line.level ELSE 0 IN
        /\ marker.pos.x = SceneX
        /\ L > view.ymx => marker.pos.y3 = MarkerH
        /\ L < view.ymn => marker.pos.y3 = 3 * view.height - 4 * MarkerH
        /\ (view.ymn <= L /\ L <= view.ymx) =>
              marker.pos.y3 = 3 * (((view.ymx - L) * view.height)
                                      \div (view.ymx - view.ymn))

\* a range change repositioned the marker with the level exactly at ymx
C7_Witness ==
    /\ last.op = "range_changed"
    /\ last.runs > 0
    /\ line # None
    /\ line.level = view.ymx
    /\ marker.pos = [x |-> SceneX, y3 |-> 0]

\* C8: after an update with a non-zero size the line, the marker, pp_label
\* and size_label are all visible; after an update with size zero the line
\* is deleted and the marker and both labels are hidden.
C8_UpdateVisibility ==
    last.op = "update" =>
        IF msg.size # 0
        THEN /\ line # None
             /\ line.visible
             /\ marker.visible
             /\ pp_label.visible
             /\ size_label.visible
        ELSE /\ line = None
             /\ chart_lines = {}
             /\ ~marker.visible
             /\ ~pp_label.visible
             /\ ~size_label.visible

\* an update with a non-zero size left everything visible; the marker's
\* style is not the one position_line gives this size, so the call found
\* the line in place and did not build it
C8_Witness ==
    /\ last.op = "update"
    /\ ~last.again
    /\ msg.size # 0
    /\ line # None
    /\ line.visible /\ marker.visible
    /\ pp_label.visible /\ size_label.visible
    /\ marker.style # StyleOf(msg.size)

\* C9: show() at size zero changes no visibility and nothing else.
C9_ShowAtZero ==
    [][ (last'.op = "show" /\ info.size = 0) =>
            UNCHANGED <<tracker_vars, view, msg>> ]_vars

\* show() was called at size zero with everything hidden
C9_Witness ==
    /\ last.op = "show"
    /\ info.size = 0
    /\ ~marker.visible /\ ~pp_label.visible /\ ~size_label.visible

\* C10: hide() leaves the marker and both labels hidden and the line, if
\* there is one, hidden and otherwise as it was; it deletes no line and
\* changes neither the Position nor any level.
C10_Hide ==
    [][ last'.op = "hide" =>
          /\ ~marker'.visible
          /\ ~pp_label'.visible
          /\ ~size_label'.visible
          /\ marker' = [marker EXCEPT !.visible = FALSE]
          /\ IF line # None
             THEN line' = [line EXCEPT !.visible = FALSE]
             ELSE line' = None
          /\ UNCHANGED <<info, nlines, chart_lines, connections, view, msg>>
      ]_vars

\* hide() was called on an open position
C10_Witness ==
    /\ last.op = "hide"
    /\ info.size # 0
    /\ line # None
    /\ ~line.visible
    /\ ~marker.visible

\* C11: after every update call, at zero size as at any other, the
\* entry_size field of size_label is the size of the message of that call,
\* and so is Position.size.
C11_EntrySize ==
    last.op = "update" =>
        /\ size_label.entry_size = msg.size
        /\ size_label.entry_size = info.size
        /\ size_label.rendered = msg.size

\* an update flattened an open position and the label's field is 0 again
C11_Witness ==
    /\ last.op = "update"
    /\ msg.size = 0
    /\ nlines > 0
    /\ size_label.entry_size = 0
    /\ ~size_label.visible

\* the y (in thirds) position_in_view gives a level L in view box v
PlacedY3(v, L) ==
    IF L > v.ymx THEN MarkerH
    ELSE IF L < v.ymn THEN 3 * v.height - 4 * MarkerH
    ELSE 3 * (((v.ymx - L) * v.height) \div (v.ymx - v.ymn))

\* position_in_view has just run: by a paint cycle or by a range change with
\* the slot connected
Repositioned ==
    \/ last.op = "paint" /\ marker.keep_in_view
    \/ last.op = "range_changed" /\ last.runs > 0

\* C12: whenever position_in_view has run, among updates, paints and range
\* changes in any order, the marker is where the level read at that moment
\* puts it: the avg_price of the most recent update when a line exists, 0
\* when none does, and never the level an earlier update left in the marker.
C12_LiveLevel ==
    Repositioned =>
        marker.pos.y3 =
            PlacedY3(view, IF line # None THEN msg.avg_price ELSE 0)

\* a range change placed the marker while no line exists and the marker's
\* level attribute still holds the price of a closed position, which would
\* put it elsewhere
C12_Witness ==
    /\ last.op = "range_changed"
    /\ last.runs > 0
    /\ line = None
    /\ marker.level # 0
    /\ PlacedY3(view, marker.level) # PlacedY3(view, 0)
    /\ marker.pos.y3 = PlacedY3(view, 0)

\* C16: the tracker keeps the one Position object it was built with; an
\* update writes its size and avg_price and nothing else of it, and no other
\* call (show, hide, hide_info) or event changes it at all.
C16_PositionFrame ==
    [][ /\ info'.id = info.id
        /\ info'.symbol = info.symbol
        /\ info'.fills = info.fills
        /\ last'.op = "update" =>
              info' = [info EXCEPT !.size = msg'.size,
                                   !.avg_price = msg'.avg_price]
        /\ last'.op # "update" => info' = info
      ]_vars

\* the Position of an open position, written by an update and then passed by
\* a hide_info call
C16_Witness ==
    /\ last.op = "hide_info"
    /\ info.id = 1
    /\ info.symbol = "X"
    /\ info.size # 0
    /\ info.avg_price = MaxPrice

\* C17: the marker's position_in_view is connected to the range-change
\* signal at most once, so a range change runs it at most once.
C17_ConnectedOnce ==
    /\ Len(connections) <= 1
    /\ last.op = "range_changed" => last.runs <= 1

\* C19: while the most recent update is one with size 0, the marker and
\* both labels are hidden and no line exists, whatever range changes,
\* paints, show, hide and hide_info calls come in between; and a
\* repositioning of the marker changes no item's visibility.
C19_FlatStaysHidden ==
    [][ /\ (msg' # NoMsg /\ msg'.size = 0) =>
              /\ line' = None
              /\ ~marker'.visible
              /\ ~pp_label'.visible
              /\ ~size_label'.visible
        /\ last'.op \in {"paint", "range_changed"} =>
              /\ marker'.visible = marker.visible
              /\ pp_label' = pp_label
              /\ size_label' = size_label
              /\ line' = line
      ]_vars

\* a range change repositioned the hidden marker of a flattened position
C19_Witness ==
    /\ last.op = "range_changed"
    /\ last.runs > 0
    /\ msg # NoMsg
    /\ msg.size = 0
    /\ line = None
    /\ ~marker.visible
    /\ marker.pos.x = SceneX

\* C18: with update_line among the calls, a non-zero Position.size implies
\* that a level-line exists, so show() never ends in an error.
C18_SizeHasLine ==
    /\ info.size # 0 => line # None
    /\ last.op = "show" => err = "none"

\* C20: through any sequence of update and update_line calls position_line
\* is entered only with a non-zero size: no call ends in the error of the
\* unbound style, and the marker's style is always one of the two glyphs.
C20_StyleBound ==
    /\ err # "UnboundLocalError"
    /\ marker.style \in {"|<", ">|"}
    /\ last.op \in {"update", "update_line"} =>
          (line # None => last.arg # 0)

\* update_line, called from outside on a flat position, built a line through
\* position_line and gave the marker the style of its size
C20_Witness ==
    /\ last.op = "update_line"
    /\ last.arg < 0
    /\ info.size = 0
    /\ line # None
    /\ marker.style = ">|"

\* C13: a deleted marker is referenced by no later operation: after
\* level_marker has rebuilt the marker of a constructed tracker, the marker
\* that update, show, hide, a paint and the range-change slot act on is the
\* new one, which is in the scene, and never the deleted one.
C13_NoDeletedMarker ==
    last.op \in {"update", "show", "hide", "paint", "range_changed"} =>
        marker.in_scene

\* C14: a marker with keep_in_view false is never pinned to the top or the
\* bottom edge by a repositioning, by a paint or by a range change, also
\* when its level lies outside [ymn, ymx].
C14_NeverPinned ==
    (/\ ~marker.keep_in_view
     /\ \/ last.op = "paint"
        \/ last.op = "range_changed" /\ last.runs > 0) =>
        LET L == IF line # None THEN line.level ELSE 0 IN
        /\ L > view.ymx => marker.pos.y3 # MarkerH
        /\ L < view.ymn => marker.pos.y3 # 3 * view.height - 4 * MarkerH

\* C15: level_marker called with size 0 ends without an error, having built
\* a marker, added it to the scene and shown it.
C15_ZeroSizeBuilds ==
    (last.op = "level_marker" /\ last.arg = 0) =>
        /\ err = "none"
        /\ arrows # <<>>
        /\ arrows[Len(arrows)].in_scene
        /\ arrows[Len(arrows)].visible

====
